---- MODULE Spec2Model ----
(***************************************************************************)
(* Model of the BadgerDB buffer manager (src/buffer.cpp): the frame        *)
(* descriptor table, the buffer pool, the page hash table, the clock hand  *)
(* and the five public operations readPage, unPinPage, flushFile,          *)
(* allocPage and disposePage.  The manager is single threaded: every       *)
(* operation is one atomic step from call to return (or raise).            *)
(***************************************************************************)
EXTENDS Integers, Sequences, FiniteSets, TLC

\* ---------------------------------------------------------------- bounds
\* largest pool size the constructor is called with (bufs)
MaxBufs == 2
\* number of File objects the callers use
NumFiles == 2
\* largest page number a file hands out
MaxPageNo == 2
\* pin counts are explored up to this value (pinCnt is an int in the code)
MaxPinCnt == 2

\* ------------------------------------------------------------- constants
\* the null File pointer of a cleared descriptor
NoFile == 0
\* Page::INVALID_NUMBER, the page number of a cleared descriptor
InvalidPage == 0
\* "no frame": the value of an unset FrameId out-parameter
NoFrame == -1

Files == 1..NumFiles
PageIds == 1..MaxPageNo
Keys == Files \X PageIds

\* ------------------------------------------------------------ the state
VARIABLES
    numBufs,        \* BufMgr::numBufs, fixed by the constructor
    bufDescTable,   \* frame -> BufDesc
    bufPool,        \* frame -> page number embedded in the Page held there
    hashTable,      \* (file, pageNo) -> frame, NoFrame when absent
    clockHand,      \* BufMgr::clockHand
    filePages,      \* File collaborator: file -> set of allocated pages
    last            \* the last call: arguments, outcome and collaborator calls

vars == <<numBufs, bufDescTable, bufPool, hashTable, clockHand, filePages, last>>

FrameIds(n) == 0..(n - 1)

\* ------------------------------------------------------ BufDesc (buffer.h)
\* BufDesc::Clear(): the empty descriptor
Clear ==
    [file |-> NoFile, pageNo |-> InvalidPage, pinCnt |-> 0,
     dirty |-> FALSE, valid |-> FALSE, refbit |-> FALSE]

\* BufDesc::Set(file, pageNo)
Set(file, pageNo) ==
    [file |-> file, pageNo |-> pageNo, pinCnt |-> 1,
     dirty |-> FALSE, valid |-> TRUE, refbit |-> TRUE]

\* ------------------------------------------------- BufHashTbl (hash table)
EmptyHashTable == [k \in Keys |-> NoFrame]

\* BufHashTbl::lookup: the frame, or NoFrame for HashNotFoundException
HashLookup(ht, file, pageNo) == ht[<<file, pageNo>>]

\* BufHashTbl::insert
HashInsert(ht, file, pageNo, frame) == [ht EXCEPT ![<<file, pageNo>>] = frame]

\* BufHashTbl::remove; an absent key raises HashNotFoundException and
\* leaves the table as it is
HashRemove(ht, file, pageNo) ==
    IF <<file, pageNo>> \in Keys
    THEN [ht EXCEPT ![<<file, pageNo>>] = NoFrame]
    ELSE ht

\* ------------------------------------------------------------ advanceClock
advanceClockWrapsEarly(hand, n) ==
    LET h == hand + 1 IN IF h >= n - 1 THEN 0 ELSE h

advanceClock(hand, n) ==
    LET h == hand + 1 IN IF h >= n THEN h % n ELSE h

\* ---------------------------------------------------------------- allocBuf
\* Outcome of allocBuf: exc is "none" or "BufferExceeded"; frame is the
\* out-parameter; tbl, ht and hand are the manager's fields when allocBuf
\* returns or raises; log lists the File and hash-table calls made, in order;
\* advances counts the calls of advanceClock.
AllocResult(exc, frame, tbl, ht, hand, log, advances) ==
    [exc |-> exc, frame |-> frame, tbl |-> tbl, ht |-> ht, hand |-> hand,
     log |-> log, advances |-> advances]

\* lines 94-99: write a dirty victim back
WriteBackNever(tbl, pool, h) ==
    [tbl |-> [tbl EXCEPT ![h].dirty = FALSE], log |-> <<>>]

WriteBack(tbl, pool, h) ==
    IF tbl[h].dirty
    THEN [tbl |-> [tbl EXCEPT ![h].dirty = FALSE],
          log |-> << <<"writePage", tbl[h].file, pool[h]>> >>]
    ELSE [tbl |-> tbl, log |-> <<>>]

\* lines 103-116: the victim leaves the hash table
RemoveVictimNever(tbl, ht, h) == [ht |-> ht, log |-> <<>>]

RemoveVictim(tbl, ht, h) ==
    IF tbl[h].valid
    THEN [ht |-> HashRemove(ht, tbl[h].file, tbl[h].pageNo),
          log |-> << <<"remove", tbl[h].file, tbl[h].pageNo>> >>]
    ELSE [ht |-> ht, log |-> <<>>]

\* line 82: the test that a frame is pinned
IsPinnedAboveOne(d) == d.pinCnt > 1

IsPinned(d) == d.pinCnt # 0

\* line 86: the sweep gives up when the counter reaches numBufs
AllPinnedAtOnce(pinned, n) == pinned >= 1

AllPinnedOneLate(pinned, n) == pinned = n + 1

AllPinned(pinned, n) == pinned = n

RECURSIVE allocLoop(_, _, _, _, _, _, _)
allocLoop(n, tbl, pool, ht, hand, pinned, adv) ==
    LET h == advanceClock(hand, n) IN
    IF ~tbl[h].valid
    THEN AllocResult("none", h, tbl, ht, h, <<>>, adv + 1)
    ELSE IF tbl[h].refbit
    THEN allocLoop(n, [tbl EXCEPT ![h].refbit = FALSE], pool, ht, h, pinned, adv + 1)
    ELSE IF IsPinned(tbl[h])
    THEN IF AllPinned(pinned + 1, n)
         THEN AllocResult("BufferExceeded", NoFrame, tbl, ht, h, <<>>, adv + 1)
         ELSE allocLoop(n, tbl, pool, ht, h, pinned + 1, adv + 1)
    ELSE LET w == WriteBack(tbl, pool, h)
             r == RemoveVictim(w.tbl, ht, h)
         IN  AllocResult("none", h, w.tbl, r.ht, h, w.log \o r.log, adv + 1)

allocBufExtraAdvance(n, tbl, pool, ht, hand) ==
    allocLoop(n, tbl, pool, ht, advanceClock(hand, n), 0, 0)

allocBuf(n, tbl, pool, ht, hand) == allocLoop(n, tbl, pool, ht, hand, 0, 0)

\* --------------------------------------------------------- the last call
\* op, file, pageNo, dirty: the call and its arguments (pageNo of allocPage is
\* the number the file assigned); exc: what it raised, "none" for a return;
\* frame: the frame found or allocated; hit: the hash-table lookup succeeded;
\* pinBefore: pinCnt of the frame found, before the call; advances: calls of
\* advanceClock; log: the File and hash-table updates made, in order.
Call(op, file, pageNo, dirty, exc, frame, hit, pinBefore, advances, log) ==
    [op |-> op, file |-> file, pageNo |-> pageNo, dirty |-> dirty, exc |-> exc,
     frame |-> frame, hit |-> hit, pinBefore |-> pinBefore, advances |-> advances,
     log |-> log]

NoCall == Call("none", NoFile, InvalidPage, FALSE, "none", NoFrame, FALSE, 0, 0, <<>>)

\* ------------------------------------------------------------ constructor
\* BufMgr(bufs): the manager after construction
ConstructHandAtZero(bufs) ==
    /\ numBufs = bufs
    /\ bufDescTable = [i \in FrameIds(bufs) |-> Clear]
    /\ bufPool = [i \in FrameIds(bufs) |-> InvalidPage]
    /\ hashTable = EmptyHashTable
    /\ clockHand = 0
    /\ filePages = [f \in Files |-> PageIds]
    /\ last = NoCall

Construct(bufs) ==
    /\ numBufs = bufs
    /\ bufDescTable = [i \in FrameIds(bufs) |-> Clear]
    /\ bufPool = [i \in FrameIds(bufs) |-> InvalidPage]
    /\ hashTable = EmptyHashTable
    /\ clockHand = bufs - 1
    /\ filePages = [f \in Files |-> PageIds]
    /\ last = NoCall

Init == \E bufs \in 1..MaxBufs : Construct(bufs)

\* ---------------------------------------------------------------- readPage
\* lines 127-128: the page is in the pool
PinHitNoRef(d) == [d EXCEPT !.pinCnt = d.pinCnt + 1]

PinHit(d) == [d EXCEPT !.refbit = TRUE, !.pinCnt = d.pinCnt + 1]

\* lines 134-141: the frame allocBuf returned receives the page
InstallNoInsert(a, pool, file, pageNo) ==
    [tbl |-> [a.tbl EXCEPT ![a.frame] = Set(file, pageNo)],
     pool |-> [pool EXCEPT ![a.frame] = pageNo],
     ht |-> a.ht]

Install(a, pool, file, pageNo) ==
    [tbl |-> [a.tbl EXCEPT ![a.frame] = Set(file, pageNo)],
     pool |-> [pool EXCEPT ![a.frame] = pageNo],
     ht |-> HashInsert(a.ht, file, pageNo, a.frame)]

readPage(file, pageNo) ==
    /\ pageNo \in filePages[file]
    /\ LET frame == HashLookup(hashTable, file, pageNo) IN
       IF frame # NoFrame
       THEN /\ bufDescTable[frame].pinCnt < MaxPinCnt
            /\ bufDescTable' = [bufDescTable EXCEPT ![frame] = PinHit(@)]
            /\ last' = Call("readPage", file, pageNo, FALSE, "none", frame, TRUE,
                            bufDescTable[frame].pinCnt, 0, <<>>)
            /\ UNCHANGED <<bufPool, hashTable, clockHand>>
       ELSE LET a == allocBuf(numBufs, bufDescTable, bufPool, hashTable, clockHand) IN
            IF a.exc # "none"
            THEN /\ bufDescTable' = a.tbl
                 /\ hashTable' = a.ht
                 /\ clockHand' = a.hand
                 /\ last' = Call("readPage", file, pageNo, FALSE, a.exc, NoFrame, FALSE,
                                 0, a.advances, a.log)
                 /\ UNCHANGED bufPool
            ELSE LET s == Install(a, bufPool, file, pageNo) IN
                 /\ bufDescTable' = s.tbl
                 /\ bufPool' = s.pool
                 /\ hashTable' = s.ht
                 /\ clockHand' = a.hand
                 /\ last' = Call("readPage", file, pageNo, FALSE, "none", a.frame, FALSE,
                                 0, a.advances,
                                 a.log \o << <<"readPage", file, pageNo>>,
                                             <<"insert", file, pageNo>> >>)
    /\ UNCHANGED <<numBufs, filePages>>

\* --------------------------------------------------------------- unPinPage
\* lines 159-170: the descriptor after the call, and what is raised
UnPinBelowZero(d, dirty) ==
    [exc |-> "none",
     desc |-> [d EXCEPT !.pinCnt = d.pinCnt - 1,
                        !.dirty = IF dirty THEN TRUE ELSE d.dirty]]

UnPin(d, dirty) ==
    IF d.pinCnt > 0
    THEN [exc |-> "none",
          desc |-> [d EXCEPT !.pinCnt = d.pinCnt - 1,
                             !.dirty = IF dirty THEN TRUE ELSE d.dirty]]
    ELSE [exc |-> "PageNotPinned", desc |-> d]

unPinPageUncaught(file, pageNo, dirty) ==
    /\ LET frame == HashLookup(hashTable, file, pageNo) IN
       IF frame = NoFrame
       THEN /\ last' = Call("unPinPage", file, pageNo, dirty, "HashNotFound", NoFrame,
                            FALSE, 0, 0, <<>>)
            /\ UNCHANGED bufDescTable
       ELSE LET u == UnPin(bufDescTable[frame], dirty) IN
            /\ bufDescTable' = [bufDescTable EXCEPT ![frame] = u.desc]
            /\ last' = Call("unPinPage", file, pageNo, dirty, u.exc, frame, TRUE,
                            bufDescTable[frame].pinCnt, 0, <<>>)
    /\ UNCHANGED <<numBufs, bufPool, hashTable, clockHand, filePages>>

unPinPage(file, pageNo, dirty) ==
    /\ LET frame == HashLookup(hashTable, file, pageNo) IN
       IF frame = NoFrame
       THEN /\ last' = Call("unPinPage", file, pageNo, dirty, "none", NoFrame, FALSE, 0, 0, <<>>)
            /\ UNCHANGED bufDescTable
       ELSE LET u == UnPin(bufDescTable[frame], dirty) IN
            /\ bufDescTable' = [bufDescTable EXCEPT ![frame] = u.desc]
            /\ last' = Call("unPinPage", file, pageNo, dirty, u.exc, frame, TRUE,
                            bufDescTable[frame].pinCnt, 0, <<>>)
    /\ UNCHANGED <<numBufs, bufPool, hashTable, clockHand, filePages>>

\* --------------------------------------------------------------- flushFile
\* lines 176-204: the scan from frame fi on
RECURSIVE flushLoopFirstOnly(_, _, _, _, _, _, _)
flushLoopFirstOnly(n, tbl, pool, ht, file, fi, log) ==
    IF fi >= n
    THEN [exc |-> "none", frame |-> NoFrame, tbl |-> tbl, ht |-> ht, log |-> log]
    ELSE IF tbl[fi].file # file
    THEN flushLoopFirstOnly(n, tbl, pool, ht, file, fi + 1, log)
    ELSE IF ~tbl[fi].valid
    THEN [exc |-> "BadBuffer", frame |-> fi, tbl |-> tbl, ht |-> ht, log |-> log]
    ELSE IF tbl[fi].pinCnt > 0
    THEN [exc |-> "PagePinned", frame |-> fi, tbl |-> tbl, ht |-> ht, log |-> log]
    ELSE LET w == WriteBack(tbl, pool, fi) IN
         [exc |-> "none", frame |-> NoFrame,
          tbl |-> [w.tbl EXCEPT ![fi] = Clear],
          ht |-> HashRemove(ht, file, tbl[fi].pageNo),
          log |-> log \o w.log \o << <<"remove", file, tbl[fi].pageNo>> >>]

RECURSIVE flushLoop(_, _, _, _, _, _, _)
flushLoop(n, tbl, pool, ht, file, fi, log) ==
    IF fi >= n
    THEN [exc |-> "none", frame |-> NoFrame, tbl |-> tbl, ht |-> ht, log |-> log]
    ELSE IF tbl[fi].file # file
    THEN flushLoop(n, tbl, pool, ht, file, fi + 1, log)
    ELSE IF ~tbl[fi].valid
    THEN [exc |-> "BadBuffer", frame |-> fi, tbl |-> tbl, ht |-> ht, log |-> log]
    ELSE IF tbl[fi].pinCnt > 0
    THEN [exc |-> "PagePinned", frame |-> fi, tbl |-> tbl, ht |-> ht, log |-> log]
    ELSE LET w == WriteBack(tbl, pool, fi) IN
         flushLoop(n, [w.tbl EXCEPT ![fi] = Clear], pool,
                   HashRemove(ht, file, tbl[fi].pageNo), file, fi + 1,
                   log \o w.log \o << <<"remove", file, tbl[fi].pageNo>> >>)

flushFile(file) ==
    /\ LET r == flushLoop(numBufs, bufDescTable, bufPool, hashTable, file, 0, <<>>) IN
       /\ bufDescTable' = r.tbl
       /\ hashTable' = r.ht
       /\ last' = Call("flushFile", file, InvalidPage, FALSE, r.exc, r.frame, FALSE, 0, 0, r.log)
    /\ UNCHANGED <<numBufs, bufPool, clockHand, filePages>>

\* --------------------------------------------------------------- allocPage
allocPage(file) ==
    /\ \E p \in PageIds \ filePages[file] :
         LET a == allocBuf(numBufs, bufDescTable, bufPool, hashTable, clockHand)
             alloc == << <<"allocatePage", file, p>> >>
         IN
         /\ filePages' = [filePages EXCEPT ![file] = @ \cup {p}]
         /\ IF a.exc # "none"
            THEN /\ bufDescTable' = a.tbl
                 /\ hashTable' = a.ht
                 /\ clockHand' = a.hand
                 /\ last' = Call("allocPage", file, p, FALSE, a.exc, NoFrame, FALSE,
                                 0, a.advances, alloc \o a.log)
                 /\ UNCHANGED bufPool
            ELSE LET s == Install(a, bufPool, file, p) IN
                 /\ bufDescTable' = s.tbl
                 /\ bufPool' = s.pool
                 /\ hashTable' = s.ht
                 /\ clockHand' = a.hand
                 /\ last' = Call("allocPage", file, p, FALSE, "none", a.frame, FALSE,
                                 0, a.advances,
                                 alloc \o a.log \o << <<"insert", file, p>> >>)
    /\ UNCHANGED numBufs

\* ------------------------------------------------------------- disposePage
\* lines 226-230: a resident page leaves the hash table and its frame
DiscardValidOnly(tbl, ht, file, pageNo, frame) ==
    [tbl |-> [tbl EXCEPT ![frame].valid = FALSE], ht |-> HashRemove(ht, file, pageNo)]

DiscardEntryOnly(tbl, ht, file, pageNo, frame) ==
    [tbl |-> tbl, ht |-> HashRemove(ht, file, pageNo)]

Discard(tbl, ht, file, pageNo, frame) ==
    [tbl |-> [tbl EXCEPT ![frame] = Clear], ht |-> HashRemove(ht, file, pageNo)]

disposePage(file, pageNo) ==
    /\ pageNo \in filePages[file]
    /\ LET frame == HashLookup(hashTable, file, pageNo)
           del == << <<"deletePage", file, pageNo>> >>
       IN
       IF frame # NoFrame
       THEN LET s == Discard(bufDescTable, hashTable, file, pageNo, frame) IN
            /\ bufDescTable' = s.tbl
            /\ hashTable' = s.ht
            /\ last' = Call("disposePage", file, pageNo, FALSE, "none", frame, TRUE,
                            bufDescTable[frame].pinCnt, 0,
                            << <<"remove", file, pageNo>> >> \o del)
       ELSE /\ last' = Call("disposePage", file, pageNo, FALSE, "none", NoFrame, FALSE, 0, 0, del)
            /\ UNCHANGED <<bufDescTable, hashTable>>
    /\ filePages' = [filePages EXCEPT ![file] = @ \ {pageNo}]
    /\ UNCHANGED <<numBufs, bufPool, clockHand>>

\* ----------------------------------------------------------- specification
Next ==
    \/ \E file \in Files, pageNo \in PageIds : readPage(file, pageNo)
    \/ \E file \in Files, pageNo \in PageIds, dirty \in BOOLEAN : unPinPage(file, pageNo, dirty)
    \/ \E file \in Files : flushFile(file)
    \/ \E file \in Files : allocPage(file)
    \/ \E file \in Files, pageNo \in PageIds : disposePage(file, pageNo)

Spec == Init /\ [][Next]_vars

\* A pool of three frames whose callers only read pages and unpin them clean
InitThree == Construct(3)

NextThree ==
    \/ \E file \in Files, pageNo \in PageIds : readPage(file, pageNo)
    \/ \E file \in Files, pageNo \in PageIds : unPinPage(file, pageNo, FALSE)

SpecThree == InitThree /\ [][NextThree]_vars

\* ------------------------------------------------------------- properties
Frames == FrameIds(numBufs)

\* the call went through allocBuf: a readPage miss or an allocPage
IsAlloc(c) == c.op = "allocPage" \/ (c.op = "readPage" /\ ~c.hit)

\* positions of the calls of one kind in a call's log
Events(c, kind) == {i \in 1..Len(c.log) : c.log[i][1] = kind}

AllValidPinned ==
    \A f \in Frames : bufDescTable[f].valid /\ bufDescTable[f].pinCnt > 0

\* C1: a frame is valid iff the hash table has an entry whose value is the
\* frame, and the key of every entry is the (file, pageNo) of its frame;
\* after every call, returned or raised.
C1_IndexMatchesFrames ==
    /\ \A f \in Frames :
         bufDescTable[f].valid =>
           /\ <<bufDescTable[f].file, bufDescTable[f].pageNo>> \in Keys
           /\ hashTable[<<bufDescTable[f].file, bufDescTable[f].pageNo>>] = f
    /\ \A k \in Keys :
         hashTable[k] # NoFrame =>
           /\ hashTable[k] \in Frames
           /\ bufDescTable[hashTable[k]].valid
           /\ bufDescTable[hashTable[k]].file = k[1]
           /\ bufDescTable[hashTable[k]].pageNo = k[2]

\* a readPage miss has evicted a page while another frame stayed valid
C1_Witness ==
    /\ last.op = "readPage" /\ last.exc = "none" /\ Events(last, "remove") # {}
    /\ \E f \in Frames : f # last.frame /\ bufDescTable[f].valid

\* C2: an allocation raises BufferExceeded only when every frame is valid
\* and pinned at the time of the call.
C2_ExceededOnlyWhenAllPinned ==
    [][last'.exc = "BufferExceeded" => AllValidPinned]_vars

\* C3: when every frame is valid and pinned, a readPage miss and an
\* allocPage raise BufferExceeded, whatever the refbits and the clock hand.
C3_AllPinnedRaises ==
    [][(AllValidPinned /\ IsAlloc(last')) => last'.exc = "BufferExceeded"]_vars

C3_Witness ==
    /\ numBufs >= 2
    /\ AllValidPinned
    /\ IsAlloc(last) /\ last.exc = "BufferExceeded"
    /\ last.advances = 2 * numBufs

\* C4 as stated: a call that raises BufferExceeded leaves every field of
\* every descriptor, refbit included, and the hash table unchanged.
C4_ExceededChangesNothing ==
    [][last'.exc = "BufferExceeded" =>
         bufDescTable' = bufDescTable /\ hashTable' = hashTable]_vars

\* C4 amended: a call that raises BufferExceeded leaves file, pageNo, valid,
\* pinCnt and dirty of every frame and the hash table unchanged; the sweep
\* has cleared refbit, which is false on every frame afterwards.
C4_ExceededClearsOnlyRefbits ==
    [][last'.exc = "BufferExceeded" =>
         /\ \A f \in Frames :
              bufDescTable'[f] = [bufDescTable[f] EXCEPT !.refbit = FALSE]
         /\ hashTable' = hashTable
         /\ bufPool' = bufPool]_vars

\* every frame pinned, refbits set before the call and cleared by it
C4_Witness ==
    /\ numBufs >= 2
    /\ last.op = "readPage" /\ last.exc = "BufferExceeded"
    /\ last.advances = 2 * numBufs
    /\ \A f \in Frames : bufDescTable[f].pinCnt > 0 /\ ~bufDescTable[f].refbit

\* C5: a successful allocation returns one frame of the pool; when allocBuf
\* returns it the frame is invalid, or has pinCnt = 0 and refbit false; no
\* frame with pinCnt > 0 loses its hash-table entry, its descriptor's page or
\* its pool slot to a readPage miss or an allocPage.
C5_NeverReturnsPinned ==
    [][(IsAlloc(last') /\ last'.exc = "none") =>
         LET a == allocBuf(numBufs, bufDescTable, bufPool, hashTable, clockHand)
             f == last'.frame
         IN
         /\ f \in Frames
         /\ a.frame = f
         /\ \/ ~a.tbl[f].valid
            \/ a.tbl[f].pinCnt = 0 /\ ~a.tbl[f].refbit
         /\ bufDescTable[f].pinCnt = 0
         /\ \A g \in Frames :
              bufDescTable[g].pinCnt > 0 =>
                /\ bufDescTable'[g].pinCnt = bufDescTable[g].pinCnt
                /\ bufDescTable'[g].file = bufDescTable[g].file
                /\ bufDescTable'[g].pageNo = bufDescTable[g].pageNo
                /\ bufDescTable'[g].valid
                /\ bufPool'[g] = bufPool[g]
                /\ hashTable'[<<bufDescTable[g].file, bufDescTable[g].pageNo>>] = g]_vars

\* an allocation has passed over a pinned frame and evicted another page
C5_Witness ==
    /\ IsAlloc(last) /\ last.exc = "none"
    /\ Events(last, "remove") # {}
    /\ last.advances > 1
    /\ \E g \in Frames : g # last.frame /\ bufDescTable[g].pinCnt > 0

\* the (file, pageNo) of a descriptor, as a hash-table key
KeyOf(d) == <<d.file, d.pageNo>>

\* C6: when the allocator takes the frame of a resident dirty page as its
\* victim, File::writePage is called exactly once, for that page with the
\* page held in the frame, before the page's hash-table entry is removed and
\* before the frame is given to the new page; a clean victim is not written;
\* only unPinPage(file, page, true) makes a page dirty.
C6_DirtyVictimWrittenOnce ==
    [][/\ \A f \in Frames :
            (~bufDescTable[f].dirty /\ bufDescTable'[f].dirty) =>
              /\ last'.op = "unPinPage" /\ last'.dirty
              /\ last'.frame = f
       /\ (IsAlloc(last') /\ last'.exc = "none" /\ bufDescTable[last'.frame].valid) =>
            LET d == bufDescTable[last'.frame]
                w == Events(last', "writePage")
                r == Events(last', "remove")
                ins == Events(last', "insert")
            IN
            /\ Cardinality(r) = 1
            /\ \A j \in r : last'.log[j] = <<"remove", d.file, d.pageNo>>
            /\ Cardinality(ins) = 1
            /\ \A j \in r : \A k \in ins : j < k
            /\ IF d.dirty
               THEN /\ Cardinality(w) = 1
                    /\ \A i \in w :
                         /\ last'.log[i] = <<"writePage", d.file, d.pageNo>>
                         /\ \A j \in r : i < j
               ELSE w = {}]_vars

\* an allocation has evicted a dirty page and written it back
C6_Witness ==
    /\ IsAlloc(last) /\ last.exc = "none"
    /\ Events(last, "writePage") # {}
    /\ Events(last, "remove") # {}

\* C7: a flushFile that raises PagePinned leaves every frame of that file
\* unchanged: none cleared, none removed from the hash table, none written.
C7_PagePinnedChangesNothing ==
    [][(last'.op = "flushFile" /\ last'.exc = "PagePinned") =>
         /\ \A f \in Frames :
              bufDescTable[f].file = last'.file =>
                /\ bufDescTable'[f] = bufDescTable[f]
                /\ hashTable'[KeyOf(bufDescTable[f])] = f
         /\ Events(last', "writePage") = {}]_vars

\* C8: pinCnt is never negative; unPinPage of a resident page lowers its
\* pinCnt by exactly 1 when it is above 0, and when it is 0 raises
\* PageNotPinned and leaves the descriptor, dirty included, unchanged.
C8_PinCntNeverNegative ==
    /\ [](\A f \in Frames : bufDescTable[f].pinCnt >= 0)
    /\ [][(last'.op = "unPinPage"
            /\ HashLookup(hashTable, last'.file, last'.pageNo) # NoFrame) =>
           LET f == HashLookup(hashTable, last'.file, last'.pageNo)
               d == bufDescTable[f]
           IN
           /\ last'.frame = f
           /\ IF d.pinCnt > 0
              THEN /\ last'.exc = "none"
                   /\ bufDescTable'[f].pinCnt = d.pinCnt - 1
                   /\ bufDescTable'[f].dirty = (d.dirty \/ last'.dirty)
              ELSE /\ last'.exc = "PageNotPinned"
                   /\ bufDescTable' = bufDescTable]_vars

\* unPinPage(file, page, true) of a resident, unpinned, clean page has raised
C8_Witness ==
    /\ last.op = "unPinPage" /\ last.exc = "PageNotPinned" /\ last.dirty
    /\ bufDescTable[last.frame].pinCnt = 0
    /\ ~bufDescTable[last.frame].dirty

\* C9: readPage of a resident page returns the frame the hash table maps it
\* to, adds exactly 1 to its pinCnt and sets its refbit; it allocates no
\* frame, leaves the clock hand, the hash table, the pool and every other
\* frame alone; a second readPage of the same page right after a first
\* returns the same frame, with pinCnt 2 above its value before the first.
C9_HitPinsSameFrame ==
    [][(last'.op = "readPage"
         /\ HashLookup(hashTable, last'.file, last'.pageNo) # NoFrame) =>
        LET f == HashLookup(hashTable, last'.file, last'.pageNo) IN
        /\ last'.exc = "none" /\ last'.hit /\ last'.frame = f
        /\ bufDescTable' = [bufDescTable EXCEPT ![f].pinCnt = @ + 1,
                                                ![f].refbit = TRUE]
        /\ UNCHANGED <<clockHand, hashTable, bufPool, filePages>>
        /\ last'.advances = 0 /\ last'.log = <<>>
        /\ (/\ last.op = "readPage" /\ last.hit
            /\ last.file = last'.file /\ last.pageNo = last'.pageNo) =>
             /\ last'.frame = last.frame
             /\ bufDescTable'[f].pinCnt = last.pinBefore + 2]_vars

\* a readPage hit on a frame pinned once before, next to another valid frame
C9_Witness ==
    /\ last.op = "readPage" /\ last.hit /\ last.pinBefore = 1
    /\ bufDescTable[last.frame].pinCnt = 2
    /\ \E g \in Frames : g # last.frame /\ bufDescTable[g].valid

AllValidUnpinnedUnreferenced ==
    \A f \in Frames :
      bufDescTable[f].valid /\ bufDescTable[f].pinCnt = 0 /\ ~bufDescTable[f].refbit

\* C10: when every frame is valid, unpinned and has refbit false, a request
\* for a page that is not resident reuses frame (clockHand + 1) mod numBufs;
\* a dirty page there is written back before its entry is removed and the
\* new page inserted; no other frame, pool slot or entry changes.
C10_FirstFrameReused ==
    [][(AllValidUnpinnedUnreferenced /\ IsAlloc(last')) =>
        LET f == (clockHand + 1) % numBufs
            d == bufDescTable[f]
            w == Events(last', "writePage")
        IN
        /\ last'.exc = "none" /\ last'.frame = f
        /\ clockHand' = f /\ last'.advances = 1
        /\ bufDescTable'[f] = Set(last'.file, last'.pageNo)
        /\ hashTable'[<<last'.file, last'.pageNo>>] = f
        /\ hashTable'[KeyOf(d)] = NoFrame
        /\ \A g \in Frames \ {f} :
             /\ bufDescTable'[g] = bufDescTable[g]
             /\ bufPool'[g] = bufPool[g]
             /\ hashTable'[KeyOf(bufDescTable[g])] = g
        /\ IF d.dirty
           THEN /\ Cardinality(w) = 1
                /\ \A i \in w :
                     /\ last'.log[i] = <<"writePage", d.file, d.pageNo>>
                     /\ \A j \in Events(last', "remove") \cup Events(last', "insert") :
                          i < j
           ELSE w = {}]_vars

\* the frame next to the hand held a dirty page and was reused in one step
\* of the hand, the other frames are valid, unpinned and unreferenced
C10_Witness ==
    /\ numBufs >= 2
    /\ IsAlloc(last) /\ last.exc = "none" /\ last.advances = 1
    /\ Events(last, "writePage") # {}
    /\ \A g \in Frames \ {last.frame} :
         bufDescTable[g].valid /\ bufDescTable[g].pinCnt = 0 /\ ~bufDescTable[g].refbit

\* the descriptor of a page read once: installed by Set, refbit as given
ReadOnce(k, ref) == [Set(k[1], k[2]) EXCEPT !.refbit = ref]

\* frames 0 .. n-1 were filled in order by n reads into a new pool of three
Filled(n) ==
    /\ numBufs = 3
    /\ clockHand = (n + 2) % 3
    /\ \A f \in Frames :
         IF f < n
         THEN /\ bufDescTable[f].valid
              /\ bufDescTable[f] = ReadOnce(KeyOf(bufDescTable[f]), TRUE)
         ELSE bufDescTable[f] = Clear

\* the three pages are pinned once, their refbits cleared; the hand is at 2
Exhausted(pin0) ==
    /\ numBufs = 3
    /\ clockHand = 2
    /\ \A f \in Frames :
         /\ bufDescTable[f].valid
         /\ bufDescTable[f] =
              [ReadOnce(KeyOf(bufDescTable[f]), FALSE) EXCEPT
                 !.pinCnt = IF f = 0 THEN pin0 ELSE 1]

\* C11: in a new pool of 3 frames, readPage of A, B, C fills frames 0, 1, 2
\* with pinCnt 1; readPage of a fourth page D then raises BufferExceeded;
\* after unPinPage(A), readPage(D) succeeds and reuses frame 0, A leaves the
\* hash table, and a readPage(A) that follows takes the miss path.
C11_ThreeFrameScenario ==
    /\ [](last = NoCall => Filled(0))
    /\ [][LET k == <<last'.file, last'.pageNo>> IN
         /\ \A n \in 0..2 :
              (Filled(n) /\ last'.op = "readPage" /\ hashTable[k] = NoFrame) =>
                /\ last'.exc = "none" /\ last'.frame = n
                /\ bufDescTable' = [bufDescTable EXCEPT ![n] = Set(k[1], k[2])]
                /\ bufDescTable'[n].pinCnt = 1
                /\ hashTable'[k] = n
                /\ Filled(n + 1)'
         /\ (Filled(3) /\ last'.op = "readPage" /\ hashTable[k] = NoFrame) =>
                /\ last'.exc = "BufferExceeded"
                /\ hashTable' = hashTable
                /\ Exhausted(1)'
         /\ (Exhausted(1) /\ last'.op = "unPinPage" /\ hashTable[k] = 0) =>
                /\ last'.exc = "none"
                /\ Exhausted(0)'
         /\ (Exhausted(0) /\ last'.op = "readPage" /\ hashTable[k] = NoFrame) =>
                /\ last'.exc = "none" /\ last'.frame = 0
                /\ bufDescTable' = [bufDescTable EXCEPT ![0] = Set(k[1], k[2])]
                /\ hashTable'[KeyOf(bufDescTable[0])] = NoFrame
                /\ hashTable'[k] = 0
                /\ last'.log[1] = <<"remove", bufDescTable[0].file, bufDescTable[0].pageNo>>
         /\ (/\ last.op = "readPage" /\ last.exc = "none" /\ last.frame = 0
             /\ Events(last, "remove") # {}
             /\ last'.op = "readPage"
             /\ <<"remove", k[1], k[2]>> = last.log[1]) =>
                /\ hashTable[k] = NoFrame
                /\ ~last'.hit
                /\ last'.advances > 0]_vars

\* frame 0 has just been reused for a fourth page while frames 1 and 2 keep
\* their pinned pages, refbits cleared by the failed request before
C11_Witness ==
    /\ numBufs = 3
    /\ last.op = "readPage" /\ last.exc = "none" /\ last.frame = 0
    /\ last.advances = 1
    /\ Events(last, "remove") # {}
    /\ clockHand = 0
    /\ bufDescTable[0] = Set(last.file, last.pageNo)
    /\ \A f \in {1, 2} :
         /\ bufDescTable[f].valid
         /\ bufDescTable[f] = ReadOnce(KeyOf(bufDescTable[f]), FALSE)

\* C12: when flushFile(file) returns, every frame that held a page of file
\* is cleared and its page has left the hash table, each of them that was
\* dirty was written back exactly once and the clean ones not at all, and
\* the frames and hash-table entries of the other files are unchanged.
C12_FlushClearsWholeFile ==
    [][(last'.op = "flushFile" /\ last'.exc = "none") =>
        /\ \A f \in Frames :
             IF bufDescTable[f].file = last'.file
             THEN /\ ~bufDescTable'[f].valid
                  /\ bufDescTable'[f] = Clear
                  /\ hashTable'[KeyOf(bufDescTable[f])] = NoFrame
                  /\ Cardinality({i \in Events(last', "writePage") :
                        last'.log[i] = <<"writePage", bufDescTable[f].file,
                                         bufDescTable[f].pageNo>>})
                       = IF bufDescTable[f].dirty THEN 1 ELSE 0
             ELSE bufDescTable'[f] = bufDescTable[f]
        /\ \A k \in Keys :
             IF k[1] = last'.file
             THEN hashTable'[k] = NoFrame
             ELSE hashTable'[k] = hashTable[k]
        /\ UNCHANGED <<bufPool, clockHand, filePages>>]_vars

\* a flushFile has returned after clearing two frames, one of them dirty
C12_Witness ==
    /\ last.op = "flushFile" /\ last.exc = "none"
    /\ Cardinality(Events(last, "remove")) = 2
    /\ Cardinality(Events(last, "writePage")) = 1

\* C13: unPinPage of a (file, pageNo) that is not in the hash table raises
\* nothing and changes no descriptor, no hash-table entry and not the clock
\* hand, whether isDirty is true or false.
C13_UnpinMissingIsNoOp ==
    [][(last'.op = "unPinPage"
         /\ HashLookup(hashTable, last'.file, last'.pageNo) = NoFrame) =>
        /\ last'.exc = "none"
        /\ ~last'.hit /\ last'.frame = NoFrame
        /\ UNCHANGED <<bufDescTable, hashTable, clockHand, bufPool, filePages>>]_vars

\* unPinPage(file, page, true) of a page that is not resident has returned,
\* while the pool holds a pinned clean page of the same file
C13_Witness ==
    /\ last.op = "unPinPage" /\ ~last.hit /\ last.dirty /\ last.exc = "none"
    /\ hashTable[<<last.file, last.pageNo>>] = NoFrame
    /\ \E f \in Frames :
         /\ bufDescTable[f].file = last.file
         /\ bufDescTable[f].pinCnt > 0 /\ ~bufDescTable[f].dirty

\* C14: disposePage(file, pageNo) calls File::deletePage(pageNo) exactly
\* once, resident page or not; a resident page, pinned or not, dirty or not,
\* loses its hash-table entry and its frame is cleared, with no write-back;
\* when the page is not resident no frame and no entry changes; nothing is
\* raised in either case.
C14_DisposeClearsAndDeletes ==
    [][last'.op = "disposePage" =>
        LET k == <<last'.file, last'.pageNo>>
            f == HashLookup(hashTable, last'.file, last'.pageNo)
        IN
        /\ last'.exc = "none"
        /\ Cardinality(Events(last', "deletePage")) = 1
        /\ \A i \in Events(last', "deletePage") :
             last'.log[i] = <<"deletePage", k[1], k[2]>>
        /\ Events(last', "writePage") = {}
        /\ filePages' = [filePages EXCEPT ![k[1]] = @ \ {k[2]}]
        /\ UNCHANGED <<clockHand, bufPool>>
        /\ IF f # NoFrame
           THEN /\ last'.hit /\ last'.frame = f
                /\ bufDescTable' = [bufDescTable EXCEPT ![f] = Clear]
                /\ hashTable' = [hashTable EXCEPT ![k] = NoFrame]
           ELSE UNCHANGED <<bufDescTable, hashTable>>]_vars

\* a resident page that was pinned has been disposed of and its frame cleared
C14_Witness ==
    /\ last.op = "disposePage" /\ last.hit /\ last.pinBefore > 0
    /\ bufDescTable[last.frame] = Clear
    /\ hashTable[<<last.file, last.pageNo>>] = NoFrame
    /\ last.pageNo \notin filePages[last.file]

\* number of advances of the hand that bring it to frame f
ScanOrder(f) == (f - clockHand - 1) % numBufs

\* allocBuf takes the frame as it is: empty, or unpinned with refbit false
Takeable(d) == ~d.valid \/ (d.pinCnt = 0 /\ ~d.refbit)

\* C15 as stated: when some frame is invalid at an allocation request, the
\* allocator returns an invalid frame and evicts no valid page, wherever the
\* clock hand points.
C15_EmptyFrameAlwaysPreferred ==
    [][(IsAlloc(last') /\ \E g \in Frames : ~bufDescTable[g].valid) =>
        /\ last'.exc = "none"
        /\ ~bufDescTable[last'.frame].valid
        /\ Events(last', "remove") = {}]_vars

\* C15 amended: when some frame is invalid at an allocation request, the
\* allocation does not raise and returns the first frame after the clock
\* hand that is invalid, or valid with pinCnt = 0 and refbit false; it
\* evicts a valid page exactly when such a valid frame comes before the
\* first invalid one.
C15_FirstTakeableFrame ==
    [][(IsAlloc(last') /\ \E g \in Frames : ~bufDescTable[g].valid) =>
        LET f == last'.frame IN
        /\ last'.exc = "none"
        /\ f \in Frames
        /\ Takeable(bufDescTable[f])
        /\ \A g \in Frames :
             ScanOrder(g) < ScanOrder(f) => ~Takeable(bufDescTable[g])
        /\ last'.advances = ScanOrder(f) + 1
        /\ (Events(last', "remove") # {}) = bufDescTable[f].valid]_vars

\* an allocation has evicted a page while another frame was, and is, empty
C15_Witness ==
    /\ IsAlloc(last) /\ last.exc = "none"
    /\ Events(last, "remove") # {}
    /\ \E g \in Frames : g # last.frame /\ ~bufDescTable[g].valid

\* C16: after a readPage miss or an allocPage that returns, the frame handed
\* back is valid, holds the requested (file, pageNo) (for allocPage the
\* number the File assigned), is the frame the hash table maps that key to,
\* and has pinCnt 1, refbit true and dirty false; pinCnt and dirty of every
\* other frame are unchanged.
C16_InstalledFrame ==
    [][(IsAlloc(last') /\ last'.exc = "none") =>
        LET f == last'.frame
            k == <<last'.file, last'.pageNo>>
        IN
        /\ f \in Frames
        /\ bufDescTable'[f].valid
        /\ bufDescTable'[f].file = k[1] /\ bufDescTable'[f].pageNo = k[2]
        /\ hashTable'[k] = f
        /\ bufDescTable'[f].pinCnt = 1
        /\ bufDescTable'[f].refbit
        /\ ~bufDescTable'[f].dirty
        /\ bufPool'[f] = k[2]
        /\ k[2] \in filePages'[k[1]]
        /\ last'.op = "allocPage" =>
             /\ k[2] \notin filePages[k[1]]
             /\ last'.log[1] = <<"allocatePage", k[1], k[2]>>
        /\ \A g \in Frames \ {f} :
             /\ bufDescTable'[g].pinCnt = bufDescTable[g].pinCnt
             /\ bufDescTable'[g].dirty = bufDescTable[g].dirty]_vars

\* allocPage has put its new page in a frame taken from another page, next
\* to a frame that is pinned and dirty
C16_Witness ==
    /\ last.op = "allocPage" /\ last.exc = "none"
    /\ Events(last, "remove") # {}
    /\ bufDescTable[last.frame] = Set(last.file, last.pageNo)
    /\ \E g \in Frames \ {last.frame} :
         bufDescTable[g].pinCnt > 0 /\ bufDescTable[g].dirty

\* C17: the clock hand is in 0 .. numBufs-1 in every state and is
\* numBufs - 1 after construction; advanceClock takes h to (h + 1) mod
\* numBufs; a call moves the hand by the advances of its sweep; after an
\* allocation that returns, the hand is the frame returned; a call that
\* makes no sweep leaves the hand where it was.
C17_ClockHandInRange ==
    /\ [](/\ clockHand \in Frames
          /\ last = NoCall => clockHand = numBufs - 1
          /\ \A h \in Frames : advanceClock(h, numBufs) = (h + 1) % numBufs)
    /\ [][/\ clockHand' = (clockHand + last'.advances) % numBufs
          /\ (IsAlloc(last') /\ last'.exc = "none") => clockHand' = last'.frame
          /\ IsAlloc(last') => last'.advances >= 1
          /\ ~IsAlloc(last') => (clockHand' = clockHand /\ last'.advances = 0)]_vars

\* a sweep of three advances has wrapped the hand round a pool of two
C17_Witness ==
    /\ numBufs = 2
    /\ IsAlloc(last) /\ last.exc = "none"
    /\ last.advances = 3
    /\ clockHand = last.frame

\* C18: an allocation sweep ends, with a frame or with BufferExceeded, after
\* at most 2 * numBufs advances of the clock hand, from every reachable
\* state, for the call just made and for a call made now.
C18_SweepBounded ==
    /\ numBufs >= 1
    /\ IsAlloc(last) =>
         /\ last.exc \in {"none", "BufferExceeded"}
         /\ last.advances >= 1
         /\ last.advances <= 2 * numBufs
         /\ (last.exc = "none") = (last.frame \in Frames)
    /\ LET a == allocBuf(numBufs, bufDescTable, bufPool, hashTable, clockHand) IN
         /\ a.exc \in {"none", "BufferExceeded"}
         /\ a.advances >= 1
         /\ a.advances <= 2 * numBufs

\* a sweep has returned a frame on its last allowed advance
C18_Witness ==
    /\ numBufs >= 2
    /\ IsAlloc(last) /\ last.exc = "none"
    /\ last.advances = 2 * numBufs

\* C19: BadBuffer is never raised: in every reachable state every frame
\* whose file is a real file is valid, so flushFile of a real file raises
\* PagePinned or nothing, for the call just made and for a call made now.
C19_BadBufferUnreachable ==
    /\ \A f \in Frames : bufDescTable[f].file \in Files => bufDescTable[f].valid
    /\ \A f \in Frames : ~bufDescTable[f].valid => bufDescTable[f].file = NoFile
    /\ last.exc # "BadBuffer"
    /\ last.op = "flushFile" => last.exc \in {"none", "PagePinned"}
    /\ \A file \in Files :
         flushLoop(numBufs, bufDescTable, bufPool, hashTable, file, 0, <<>>).exc
           \in {"none", "PagePinned"}

\* flushFile of a real file has cleared a frame and then met a pinned page
C19_Witness ==
    /\ last.op = "flushFile" /\ last.exc = "PagePinned"
    /\ last.file \in Files
    /\ Events(last, "remove") # {}
    /\ \E f \in Frames : ~bufDescTable[f].valid

\* C20: an allocPage that raises BufferExceeded has no effect on the File:
\* the set of pages of the file is the same after the failed call as before.
C20_FailedAllocPageLeavesFile ==
    [][(last'.op = "allocPage" /\ last'.exc = "BufferExceeded") =>
         /\ filePages' = filePages
         /\ Events(last', "allocatePage") = {}]_vars

====
